---------------------------- MODULE Spec2Model ----------------------------
(***************************************************************************)
(* BHOOMI Safety Interface (src/BHM2.0.py): a Streamlit script.  Every     *)
(* rerun of the script (a "tick") is one step of the state machine: it     *)
(* selects the data source, builds the data frame df, classifies the last  *)
(* reading, fills the alerts log, draws the worker zones, detects the      *)
(* restricted-area intrusions and answers the two alert buttons.           *)
(* The only state that survives a tick is st.session_state.df, the widget  *)
(* values (the radio, the uploader) and the file on disk; the remaining    *)
(* variables record what the last tick computed and rendered.              *)
(* src/BHM.py is a copy of the same script cut off inside line 27 (an      *)
(* unterminated string): it does not compile and adds no behaviour.        *)
(***************************************************************************)
EXTENDS Integers, Sequences, FiniteSets, TLC

VARIABLES
    mode,              \* value of the radio "Select Data Source" (line 27)
    session_df,        \* rows of st.session_state.df (lines 47-48, 56)
    preloaded,         \* the file mine_sensor_data.csv on disk (line 31)
    uploaded,          \* value of the st.file_uploader widget (line 38)
    trigger,           \* what caused the last rerun of the script
    tick_result,       \* "none" | "ok" | "stopped" (st.stop) | "crashed"
    message,           \* st.success/st.error/st.warning of lines 29-44
    exception,         \* the uncaught exception of a crashed tick, or ""
    df,                \* the data frame df of the last tick
    current_risk,      \* <<df["Risk"].iloc[-1]>>, <<>> when line 161 was not passed
    risk_status,       \* the Current Risk metric (line 162), "" when not rendered
    last_update,       \* the Last Update metric (line 166), << >> when not rendered
    alerts,            \* the Alerts Log table (lines 192-195)
    worker_zones,      \* the draw of line 199
    restricted_alerts, \* the intrusion list of line 200
    zone_notice,       \* "warning" | "info" (lines 202-205), "" when not rendered
    notice_zones,      \* the zones named by the st.warning of line 203
    zone_outcome,      \* answer to "Alert Workers Near Restricted Area" (209-213)
    zone_ack,          \* the zones named by the st.success of line 211
    manual_outcome     \* answer to "SEND ALERT NOW" (lines 216-217)

vars == << mode, session_df, preloaded, uploaded, trigger, tick_result, message,
           exception, df, current_risk, risk_status, last_update, alerts,
           worker_zones, restricted_alerts, zone_notice, notice_zones,
           zone_outcome, zone_ack, manual_outcome >>

-----------------------------------------------------------------------------
(* Program constants *)

\* the three options of the radio, the first is the default
Simulated == "Simulated Live Data"
PreloadedCSV == "Preloaded CSV"
UploadCSV == "Upload CSV"
Modes == {Simulated, PreloadedCSV, UploadCSV}

\* df = st.session_state.df.tail(50)
K == 50

\* alerts = df.tail(5)
AlertRows == 5

\* the thresholds of risk_status and of alerts["Action"]
HighAbove == 70
MediumAbove == 40

\* np.random.randint(0, 100)
RandLow == 0
RandHigh == 100

Columns == {"Timestamp", "Vibration", "Slope", "Weather", "Risk"}

restricted_areas == <<"Zone A", "Zone C", "Zone E">>
Zones == <<"Zone A", "Zone B", "Zone C", "Zone D", "Zone E">>

Range(s) == {s[i] : i \in DOMAIN s}

-----------------------------------------------------------------------------
(* Library functions, by what they do *)

\* numpy.random.randint(low, high): an integer of [low, high), high excluded
randint(low, high) == low .. (high - 1)

\* the first n rows instead of the last n (DataFrame.head)
tail_as_head(rows, n) ==
    IF Len(rows) <= n THEN rows ELSE SubSeq(rows, 1, n)

\* DataFrame.tail(n): the last n rows, in order
tail(rows, n) ==
    IF Len(rows) <= n THEN rows ELSE SubSeq(rows, Len(rows) - n + 1, Len(rows))

\* a file as pandas.read_csv sees it
NoFile == [kind |-> "absent", columns |-> {}, rows |-> << >>]
ZeroByteFile == [kind |-> "zero", columns |-> {}, rows |-> << >>]
CsvFile(columns, rows) == [kind |-> "csv", columns |-> columns, rows |-> rows]

\* pandas.read_csv raises on a missing file (FileNotFoundError) and on a file
\* without a header line (EmptyDataError)
read_csv_raises(file) == file.kind # "csv"
read_csv(file) == [columns |-> file.columns, rows |-> file.rows]

EmptyFrame == [columns |-> {}, rows |-> << >>]

-----------------------------------------------------------------------------
(* The script's own computations *)

\* new_data, lines 49-55: the time stamp is the clock reading of this tick
\* (the n-th reading of the session carries the n-th clock reading)
new_data(stored, r) == [Timestamp |-> Len(stored) + 1, Risk |-> r]

\* the thresholds compared with >= instead of >
risk_status_ge(risk) ==
    IF risk >= HighAbove THEN "HIGH"
    ELSE IF risk >= MediumAbove THEN "MEDIUM" ELSE "LOW"

\* line 162
risk_status_of(risk) ==
    IF risk > HighAbove THEN "HIGH"
    ELSE IF risk > MediumAbove THEN "MEDIUM" ELSE "LOW"

\* lines 193-194
Action(risk) ==
    IF risk > HighAbove THEN "Evacuation"
    ELSE IF risk > MediumAbove THEN "Warning" ELSE "Monitoring"

\* lines 192-194
alerts_of(rows) ==
    LET t == tail(rows, AlertRows)
    IN  [i \in 1 .. Len(t) |->
            [Timestamp |-> t[i].Timestamp, Risk |-> t[i].Risk,
             Action |-> Action(t[i].Risk)]]

\* line 200
detect(zones) == SelectSeq(zones, LAMBDA z : z \in Range(restricted_areas))


\* line 161: df["Risk"].iloc[-1]
last_row(rows) == rows[Len(rows)]

\* lines 202-205
notice_of(list) == IF list # << >> THEN "warning" ELSE "info"

\* the acknowledgment sent without looking at the list
dispatch_zone_unchecked(list) == "Sent"

\* lines 210-213
dispatch_zone(list) == IF list # << >> THEN "Sent" ELSE "Suppressed-NoIntrusion"

\* line 203: ', '.join(restricted_alerts)
warned(list) == list

\* the zones listed in the order of restricted_areas, each once
acked_by_area(list) == SelectSeq(restricted_areas, LAMBDA z : z \in Range(list))

\* line 211: ', '.join(restricted_alerts)
acked(list) == list

\* line 217
dispatch_manual == "Sent"

\* the button of line 216 exists only when the last run got as far as line 216
ManualAvailable == tick_result = "ok"

-----------------------------------------------------------------------------
(* Lines 27-57: the data source.  The result names how the stage ends, the *)
(* message shown, the frame df and the rows st.session_state.df holds      *)
(* afterwards.                                                             *)

Halted(result, msg, exc) ==
    [result |-> result, message |-> msg, exception |-> exc,
     df |-> EmptyFrame, stored |-> session_df]

\* lines 29-35: the bare except turns every failure of read_csv into st.stop
SourcePreloaded ==
    IF read_csv_raises(preloaded)
    THEN Halted("stopped", "Preloaded file not found", "")
    ELSE [result |-> "ok", message |-> "Preloaded CSV loaded", exception |-> "",
          df |-> read_csv(preloaded), stored |-> session_df]

\* lines 37-44: no try around read_csv
SourceUpload(up) ==
    IF up.kind = "absent"
    THEN Halted("stopped", "Please upload a CSV", "")
    ELSE IF read_csv_raises(up)
    THEN Halted("crashed", "", "EmptyDataError")
    ELSE [result |-> "ok", message |-> "Uploaded CSV loaded", exception |-> "",
          df |-> read_csv(up), stored |-> session_df]

\* lines 46-57: the stored frame grows by one row, df is its last K rows
SourceSimulated(r) ==
    LET grown == Append(session_df, new_data(session_df, r))
    IN  [result |-> "ok", message |-> "", exception |-> "",
         df |-> [columns |-> Columns, rows |-> tail(grown, K)],
         stored |-> grown]

\* the outcomes of the data-source stage; only the Simulated branch draws
Source(m, up, Risks) ==
    IF m = PreloadedCSV THEN { SourcePreloaded }
    ELSE IF m = UploadCSV THEN { SourceUpload(up) }
    ELSE { SourceSimulated(r) : r \in Risks }

\* lines 161-186: the first statement that raises on this frame, "" when none
\* does; df[c] raises KeyError without column c, .iloc[-1] IndexError without rows
Raises(frame) ==
    IF "Risk" \notin frame.columns THEN "KeyError"
    ELSE IF frame.rows = << >> THEN "IndexError"
    ELSE IF Columns \ frame.columns # {} THEN "KeyError"
    ELSE ""

\* whether line 162 is passed before the tick raises
Classifies(frame) == "Risk" \in frame.columns /\ frame.rows # << >>

\* whether line 166 is passed before the tick raises
Stamps(frame) == Classifies(frame) /\ "Timestamp" \in frame.columns

\* whether the run gets past the data source and the charts, to line 192
Completes(src) == src.result = "ok" /\ Raises(src.df) = ""

-----------------------------------------------------------------------------
(* One run of the script, top to bottom: mode m selected, uploader holding *)
(* up, rerun caused by trig.  src is the outcome of the data source, wz    *)
(* the draw of the worker zones (line 199), list the intrusion list.       *)

Render(m, up, trig, src, done, wz, list) ==
    /\ mode' = m
    /\ uploaded' = up
    /\ trigger' = trig
    /\ session_df' = src.stored
    /\ tick_result' = IF done THEN "ok"
                      ELSE IF src.result = "ok" THEN "crashed" ELSE src.result
    /\ message' = src.message
    /\ exception' = IF src.result = "ok" THEN Raises(src.df) ELSE src.exception
    /\ df' = src.df
    /\ current_risk' =
          IF src.result = "ok" /\ Classifies(src.df)
          THEN << last_row(src.df.rows).Risk >> ELSE << >>
    /\ risk_status' =
          IF src.result = "ok" /\ Classifies(src.df)
          THEN risk_status_of(last_row(src.df.rows).Risk) ELSE ""
    /\ last_update' =
          IF src.result = "ok" /\ Stamps(src.df)
          THEN << last_row(src.df.rows).Timestamp >> ELSE << >>
    /\ alerts' = IF done THEN alerts_of(src.df.rows) ELSE << >>
    /\ worker_zones' = wz
    /\ restricted_alerts' = list
    /\ zone_notice' = IF done THEN notice_of(list) ELSE ""
    /\ notice_zones' = IF done /\ list # << >> THEN warned(list) ELSE << >>
    /\ zone_outcome' = IF done /\ trig = "zone" THEN dispatch_zone(list) ELSE ""
    /\ zone_ack' = IF done /\ trig = "zone" /\ list # << >> THEN acked(list) ELSE << >>
    /\ manual_outcome' = IF done /\ trig = "manual" THEN dispatch_manual ELSE ""

\* a run that halts or raises before line 199 draws no worker zones
Run(m, up, trig, Risks, Draws) ==
    \E src \in Source(m, up, Risks) :
        IF Completes(src)
        THEN \E wz \in Draws : Render(m, up, trig, src, TRUE, wz, detect(wz))
        ELSE Render(m, up, trig, src, FALSE, << >>, << >>)

\* a Simulated tick appends; the model stops appending at cap rows
CanRun(m, cap) == m = Simulated => Len(session_df) < cap

-----------------------------------------------------------------------------
(* What reruns the script *)

\* the first run of a session: the radio shows its first option
Load(Risks, Draws, cap) ==
    /\ tick_result = "none"
    /\ CanRun(Simulated, cap)
    /\ Run(Simulated, NoFile, "load", Risks, Draws)
    /\ UNCHANGED preloaded

\* st_autorefresh (line 223) is registered only by a run that reached it
Timer(Risks, Draws, cap) ==
    /\ tick_result = "ok"
    /\ CanRun(mode, cap)
    /\ Run(mode, uploaded, "timer", Risks, Draws)
    /\ UNCHANGED preloaded

\* the buttons of lines 209 and 216 exist only when the last run rendered them
ZoneButton(Risks, Draws, cap) ==
    /\ tick_result = "ok"
    /\ CanRun(mode, cap)
    /\ Run(mode, uploaded, "zone", Risks, Draws)
    /\ UNCHANGED preloaded

ManualButton(Risks, Draws, cap) ==
    /\ ManualAvailable
    /\ CanRun(mode, cap)
    /\ Run(mode, uploaded, "manual", Risks, Draws)
    /\ UNCHANGED preloaded

\* the radio of line 27 is rendered by every run; the uploader of another
\* mode's branch is not rendered and comes back empty
SelectMode(m, Risks, Draws, cap) ==
    /\ tick_result # "none"
    /\ m # mode
    /\ CanRun(m, cap)
    /\ Run(m, NoFile, "radio", Risks, Draws)
    /\ UNCHANGED preloaded

\* the uploader of line 38: a file is chosen, replaced or removed
Upload(file, Risks, Draws) ==
    /\ tick_result # "none"
    /\ mode = UploadCSV
    /\ file # uploaded
    /\ Run(mode, file, "upload", Risks, Draws)
    /\ UNCHANGED preloaded

\* the environment writes, replaces or deletes mine_sensor_data.csv; no rerun
WriteFile(file) ==
    /\ file # preloaded
    /\ preloaded' = file
    /\ UNCHANGED << mode, session_df, uploaded, trigger, tick_result, message,
                    exception, df, current_risk, risk_status, last_update, alerts,
                    worker_zones, restricted_alerts, zone_notice, notice_zones,
                    zone_outcome, zone_ack, manual_outcome >>

InitOver(DiskFiles) ==
    /\ mode = Simulated
    /\ session_df = << >>
    /\ preloaded \in DiskFiles
    /\ uploaded = NoFile
    /\ trigger = ""
    /\ tick_result = "none"
    /\ message = ""
    /\ exception = ""
    /\ df = EmptyFrame
    /\ current_risk = << >>
    /\ risk_status = ""
    /\ last_update = << >>
    /\ alerts = << >>
    /\ worker_zones = << >>
    /\ restricted_alerts = << >>
    /\ zone_notice = ""
    /\ notice_zones = << >>
    /\ zone_outcome = ""
    /\ zone_ack = << >>
    /\ manual_outcome = ""

NextOver(Risks, Draws, DiskFiles, UploadFiles, cap) ==
    \/ Load(Risks, Draws, cap)
    \/ Timer(Risks, Draws, cap)
    \/ ZoneButton(Risks, Draws, cap)
    \/ ManualButton(Risks, Draws, cap)
    \/ \E m \in Modes : SelectMode(m, Risks, Draws, cap)
    \/ \E f \in UploadFiles : Upload(f, Risks, Draws)
    \/ \E f \in DiskFiles : WriteFile(f)

-----------------------------------------------------------------------------
(* The session specification: K+2 appends, one Risk value, two draws of    *)
(* the worker zones, files of every kind.                                  *)

MaxAppends == 52

rows_of(n, risk) == [i \in 1 .. n |-> [Timestamp |-> i, Risk |-> risk]]

SessionRisks == {71}
SessionDraws == { <<"Zone B", "Zone D", "Zone B", "Zone D", "Zone B">>,
                  <<"Zone A", "Zone B", "Zone E", "Zone A", "Zone D">> }
SessionDisk ==
    { NoFile, ZeroByteFile,
      CsvFile(Columns \ {"Risk"}, rows_of(1, 30)),
      CsvFile(Columns, rows_of(K + 1, 30)) }
SessionUploads ==
    { NoFile, ZeroByteFile,
      CsvFile(Columns, << >>),
      CsvFile(Columns \ {"Weather"}, rows_of(1, 30)),
      CsvFile(Columns, rows_of(2, 30)) }

Init == InitOver(SessionDisk)
Next == NextOver(SessionRisks, SessionDraws, SessionDisk, SessionUploads, MaxAppends)
Spec == Init /\ [][Next]_vars

-----------------------------------------------------------------------------
(* Claims settled under the session specification *)

CsvModes == {PreloadedCSV, UploadCSV}

\* the file the selected dataset-backed source reads
SourceFile == IF mode = PreloadedCSV THEN preloaded ELSE uploaded

\* absent, empty (no bytes, or a header and no rows) or a required column missing
Unavailable(file) ==
    \/ file.kind # "csv"
    \/ file.rows = << >>
    \/ Columns \ file.columns # {}

\* C2: the Window never holds more than K readings, under every data source:
\* neither the frame df a tick works on nor the stored st.session_state.df.
C2_WindowBounded == Len(df.rows) <= K /\ Len(session_df) <= K

\* C3: a tick caused by a change of the data source starts from an empty
\* Window: back in Simulated mode, the stored frame holds only the reading
\* that tick has appended.
C3_SwitchResets ==
    (trigger = "radio" /\ mode = Simulated) =>
        session_df = << new_data(<< >>, last_row(session_df).Risk) >>

\* C6: once the page exists, the manual alert can be requested in every state,
\* and a tick caused by such a request answers Sent.
C6_ManualAlways ==
    /\ tick_result # "none" => ManualAvailable
    /\ trigger = "manual" => manual_outcome = "Sent"

\* C7: a tick that finds the dataset of a dataset-backed source absent, empty
\* or malformed ends in st.stop with a message shown, without a crash, before
\* any classification, detection or dispatch, and leaves the stored frame as
\* it was.  (A step that leaves the file on disk alone is a tick.)
C7_SourceUnavailable ==
    [][ ( /\ preloaded' = preloaded
          /\ mode' \in CsvModes
          /\ Unavailable(SourceFile') )
        => ( /\ tick_result' = "stopped"
             /\ message' # ""
             /\ exception' = ""
             /\ current_risk' = << >> /\ risk_status' = ""
             /\ alerts' = << >> /\ restricted_alerts' = << >>
             /\ zone_outcome' = "" /\ manual_outcome' = ""
             /\ session_df' = session_df ) ]_vars

\* C9: every tick in Simulated mode, whatever caused it, appends exactly one
\* reading to the stored frame, and the reading it classifies and shows as
\* current is that one: the last row of the stored frame and of df.
C9_OneAppendPerTick ==
    [][ ( preloaded' = preloaded /\ mode' = Simulated )
        => ( /\ Len(session_df') = Len(session_df) + 1
             /\ SubSeq(session_df', 1, Len(session_df)) = session_df
             /\ session_df'[Len(session_df')].Timestamp = Len(session_df) + 1
             /\ df'.rows # << >>
             /\ df'.rows[Len(df'.rows)] = session_df'[Len(session_df')]
             /\ Len(df'.rows) <= Len(session_df')
             /\ current_risk' = << session_df'[Len(session_df')].Risk >>
             /\ last_update' = << session_df'[Len(session_df')].Timestamp >>
             /\ alerts'[Len(alerts')].Timestamp = Len(session_df')
             /\ risk_status' # "" ) ]_vars

\* C9 witness: a button-caused Simulated tick after more than K appends has
\* classified the newest reading while older readings are still stored.
C9_Witness ==
    /\ mode = Simulated
    /\ trigger = "manual"
    /\ Len(session_df) = K + 1
    /\ last_update = << K + 1 >>
    /\ Len(df.rows) = K

-----------------------------------------------------------------------------
(* The classification specification: datasets of one row for every Risk of *)
(* 0..100, an uploaded dataset of more rows than the alerts log shows, and *)
(* the Risk values around the two thresholds for the Simulated source.     *)

MaxClassifyAppends == 1

rows_with(risks) == [i \in DOMAIN risks |-> [Timestamp |-> i, Risk |-> risks[i]]]

ClassifyRisks == {40, 41, 70, 71}
ClassifyDraws == { <<"Zone A", "Zone B", "Zone E", "Zone A", "Zone D">> }
ClassifyDisk == { NoFile, CsvFile(Columns, rows_with(<< 70, 71, 40, 41, 100, 0 >>)) }
ClassifyUploads == { NoFile } \cup { CsvFile(Columns, rows_with(<< s >>)) : s \in 0 .. 100 }

ClassifyInit == InitOver(ClassifyDisk)
ClassifyNext ==
    NextOver(ClassifyRisks, ClassifyDraws, ClassifyDisk, ClassifyUploads,
             MaxClassifyAppends)
ClassifySpec == ClassifyInit /\ [][ClassifyNext]_vars

\* C1: a classified score s is HIGH exactly when s > 70, MEDIUM exactly when
\* 40 < s <= 70 and LOW exactly when s <= 40; every row of the alerts log
\* carries Evacuation, Warning or Monitoring by the same rule; and the last
\* row of the log is the classified reading, so that the tier of the metric
\* and the Action of the log correspond.
C1_Classification ==
    /\ current_risk # << >> =>
         LET s == current_risk[1]
         IN  /\ (risk_status = "HIGH") <=> (s > 70)
             /\ (risk_status = "MEDIUM") <=> (40 < s /\ s <= 70)
             /\ (risk_status = "LOW") <=> (s <= 40)
    /\ \A i \in DOMAIN alerts :
         /\ (alerts[i].Action = "Evacuation") <=> (alerts[i].Risk > 70)
         /\ (alerts[i].Action = "Warning") <=> (40 < alerts[i].Risk /\ alerts[i].Risk <= 70)
         /\ (alerts[i].Action = "Monitoring") <=> (alerts[i].Risk <= 40)
    /\ tick_result = "ok" =>
         /\ alerts # << >>
         /\ << alerts[Len(alerts)].Risk >> = current_risk
         /\ << risk_status, alerts[Len(alerts)].Action >> \in
               { << "HIGH", "Evacuation" >>, << "MEDIUM", "Warning" >>,
                 << "LOW", "Monitoring" >> }

\* C1 witness: a reading of exactly 70 was classified MEDIUM, with Warning in
\* the last row of the alerts log.
C1_Witness ==
    /\ tick_result = "ok"
    /\ current_risk = << 70 >>
    /\ risk_status = "MEDIUM"
    /\ alerts[Len(alerts)].Action = "Warning"

-----------------------------------------------------------------------------
(* The synthetic-source specification: every Risk np.random.randint(0, 100) *)
(* can return.                                                             *)

MaxRiskAppends == 1

SyntheticRisks == randint(RandLow, RandHigh)
RiskDraws == { <<"Zone A", "Zone B", "Zone E", "Zone A", "Zone D">> }
RiskDisk == { NoFile, CsvFile(Columns, rows_with(<< 30 >>)) }
RiskUploads == { NoFile, CsvFile(Columns, rows_with(<< 30 >>)) }

RiskInit == InitOver(RiskDisk)
RiskNext == NextOver(SyntheticRisks, RiskDraws, RiskDisk, RiskUploads, MaxRiskAppends)
RiskSpec == RiskInit /\ [][RiskNext]_vars

\* a tick of the Synthetic source that produces a reading of Risk v
SyntheticTick(v) ==
    /\ \/ Load(SyntheticRisks, RiskDraws, MaxRiskAppends)
       \/ Timer(SyntheticRisks, RiskDraws, MaxRiskAppends)
       \/ SelectMode(Simulated, SyntheticRisks, RiskDraws, MaxRiskAppends)
    /\ mode' = Simulated
    /\ current_risk' = << v >>

\* C8: every reading the Synthetic source has produced has a Risk in 0..100,
\* and wherever the source can still produce a reading, every integer of
\* 0..100, both endpoints included, can be the Risk of the next one.
C8_WholeRange ==
    /\ \A i \in DOMAIN session_df : session_df[i].Risk \in 0 .. 100
    /\ Len(session_df) < MaxRiskAppends =>
         \A v \in 0 .. 100 : ENABLED SyntheticTick(v)

-----------------------------------------------------------------------------
(* The zone specification: the first three workers stand in any zone.      *)

MaxZoneAppends == 2

ZoneRisks == {71}
ZoneDraws ==
    { << a, b, c, "Zone B", "Zone D" >> : a, b, c \in Range(Zones) }
ZoneDisk == { NoFile, CsvFile(Columns, rows_with(<< 30 >>)) }
ZoneUploads == { NoFile, CsvFile(Columns, rows_with(<< 30 >>)) }

ZoneInit == InitOver(ZoneDisk)
ZoneNext == NextOver(ZoneRisks, ZoneDraws, ZoneDisk, ZoneUploads, MaxZoneAppends)
ZoneSpec == ZoneInit /\ [][ZoneNext]_vars

\* the place of the first worker standing in zone z
FirstSeen(zones, z) == CHOOSE i \in DOMAIN zones : zones[i] = z /\ \A j \in 1 .. (i - 1) : zones[j] # z

\* C4: the intrusion list holds exactly the restricted zones with at least one
\* worker, each once, in the order in which they first appear among the
\* assignments (hence is empty without such a worker and never names a zone
\* that is not restricted).
C4_IntrusionList ==
    tick_result = "ok" =>
        /\ Range(restricted_alerts) = Range(worker_zones) \cap Range(restricted_areas)
        /\ \A i, j \in DOMAIN restricted_alerts :
              i < j => /\ restricted_alerts[i] # restricted_alerts[j]
                       /\ FirstSeen(worker_zones, restricted_alerts[i])
                            < FirstSeen(worker_zones, restricted_alerts[j])

C10_SameList ==
    /\ trigger = "zone" =>
          /\ (zone_outcome = "Sent") <=> (zone_notice = "warning")
          /\ zone_outcome = "Sent" => zone_ack = notice_zones
    /\ tick_result = "ok" =>
          /\ worker_zones \in ZoneDraws
          /\ Range(restricted_alerts) \subseteq Range(worker_zones)
          /\ (zone_notice = "warning") <=> (restricted_alerts # << >>)
          /\ notice_zones = restricted_alerts
    /\ tick_result # "ok" =>
          /\ worker_zones = << >> /\ restricted_alerts = << >>
          /\ zone_notice = "" /\ notice_zones = << >> /\ zone_ack = << >>
    /\ (mode = Simulated /\ tick_result = "ok" /\ Len(session_df) < MaxZoneAppends) =>
          \A wz \in ZoneDraws :
              ENABLED ( /\ Timer(ZoneRisks, {wz}, MaxZoneAppends)
                        /\ worker_zones' = wz )

\* C10 witness: the button was pressed with workers in Zone C and then Zone A;
\* warning and acknowledgment both name Zone C, Zone A.
C10_Witness ==
    /\ trigger = "zone"
    /\ zone_outcome = "Sent"
    /\ zone_notice = "warning"
    /\ notice_zones = << "Zone C", "Zone A" >>
    /\ zone_ack = << "Zone C", "Zone A" >>

=============================================================================
